---- MODULE Spec2Model ----
(***************************************************************************)
(* Model of backend/main.py: the /upload ingestion pipeline, the /ask      *)
(* query path with its result normalisation, and _safe_table_name.         *)
(*                                                                         *)
(* Strings are sequences of one-character strings.  The two artifact       *)
(* directories UPLOAD_DIR and DB_DIR are the two variables `uploads` and   *)
(* `databases`, each a function from the file name inside the directory    *)
(* to the file's content.                                                  *)
(***************************************************************************)
EXTENDS Integers, Sequences, FiniteSets, TLC

VARIABLES
    uploads,      \* UPLOAD_DIR: file name -> bytes of the raw copy
    databases,    \* DB_DIR: file name -> store (relation name -> content)
    up,           \* per /upload request: locals of upload_file and its position
    ask,          \* per /ask request: locals of ask_question and its position
    agent_calls,  \* payloads handed to agent.invoke, in call order
    raw,          \* input of the _safe_table_name study
    clean,        \* <<_safe_table_name(raw)>> once computed, <<>> before
    again         \* <<_safe_table_name(clean[1])>> once computed, <<>> before

vars == <<uploads, databases, up, ask, agent_calls, raw, clean, again>>

-----------------------------------------------------------------------------
(* Bounds *)

MaxLen == 3        \* longest input string of the _safe_table_name study
MaxSheets == 2     \* most sheets in an uploaded workbook
MaxTrace == 2      \* most intermediate steps the agent produces
SidLen == 1        \* characters of a session id (uuid4().hex has 32)

Uploads == {1, 2}  \* the two concurrent /upload requests
Asks == {1}        \* the /ask request slot; requests follow one another in it

None == "None"     \* a local not yet bound
NoId == <<>>       \* session_id before uuid4() is called

-----------------------------------------------------------------------------
(* Characters *)

LowerLetters == {"a", "b", "c", "d", "e", "f", "l", "s", "t", "v", "x"}
UpperLetters == {"A", "C", "L", "S", "V", "X"}
Digits == {"0", "1", "2"}
Whitespace == {" "}
SafeChars == LowerLetters \cup Digits \cup {"_"}    \* the class [0-9a-z_]

\* str.lower() on one character
LowerChar(c) ==
    CASE c = "A" -> "a"
      [] c = "C" -> "c"
      [] c = "L" -> "l"
      [] c = "S" -> "s"
      [] c = "V" -> "v"
      [] c = "X" -> "x"
      [] c = "É" -> "é"
      [] OTHER -> c

\* str.lower()
Lower(s) == [i \in 1..Len(s) |-> LowerChar(s[i])]

\* str.endswith(suffix)
EndsWith(s, suffix) ==
    /\ Len(s) >= Len(suffix)
    /\ SubSeq(s, Len(s) - Len(suffix) + 1, Len(s)) = suffix

\* str.startswith(prefix)
StartsWith(s, prefix) ==
    /\ Len(s) >= Len(prefix)
    /\ SubSeq(s, 1, Len(prefix)) = prefix

RECURSIVE LStrip(_)
LStrip(s) ==
    IF s # <<>> /\ Head(s) \in Whitespace THEN LStrip(Tail(s)) ELSE s

RECURSIVE RStrip(_)
RStrip(s) ==
    IF s # <<>> /\ s[Len(s)] \in Whitespace
    THEN RStrip(SubSeq(s, 1, Len(s) - 1))
    ELSE s

\* str.strip()
Strip(s) == RStrip(LStrip(s))

-----------------------------------------------------------------------------
(* _safe_table_name *)

RECURSIVE DropUnsafe(_)
DropUnsafe(s) ==
    IF s # <<>> /\ Head(s) \notin SafeChars THEN DropUnsafe(Tail(s)) ELSE s

\* re.sub(r"[^0-9a-z_]+", "_", name)
RECURSIVE SubUnsafeRuns(_)
SubUnsafeRuns(s) ==
    IF s = <<>> THEN <<>>
    ELSE IF Head(s) \in SafeChars
         THEN <<Head(s)>> \o SubUnsafeRuns(Tail(s))
         ELSE <<"_">> \o SubUnsafeRuns(DropUnsafe(Tail(s)))

\* if re.match(r"^\d", name): name = "t_" + name
PrefixDigitNoop(name) == name
PrefixDigit(name) ==
    IF name # <<>> /\ Head(name) \in Digits THEN <<"t", "_">> \o name ELSE name

\* return name or "table1"
OrDefault(name) ==
    IF name = <<>> THEN <<"t", "a", "b", "l", "e", "1">> ELSE name

_safe_table_name(name) ==
    OrDefault(PrefixDigit(SubUnsafeRuns(Lower(Strip(name)))))

\* ^[a-z_][a-z0-9_]*$
MatchesIdentifier(s) ==
    /\ Len(s) > 0
    /\ s[1] \in LowerLetters \cup {"_"}
    /\ \A i \in 1..Len(s) : s[i] \in SafeChars

-----------------------------------------------------------------------------
(* The _safe_table_name study: every string up to MaxLen over NameChars *)

NameChars == {"a", "A", "1", "_", " ", "-", "é", "É"}

RawNames == UNION {[1..n -> NameChars] : n \in 0..MaxLen}

-----------------------------------------------------------------------------
(* Paths and file-name helpers of upload_file *)

HexChars == {"0", "f"}

\* the values uuid4().hex can take
SessionIds == [1..SidLen -> HexChars]

\* f"{session_id}_{filename}" inside UPLOAD_DIR
saved_path_shared(session_id, filename) == <<"_">> \o filename
saved_path(session_id, filename) == session_id \o <<"_">> \o filename

\* f"{session_id}.db" inside DB_DIR
db_path(session_id) == session_id \o <<".", "d", "b">>

Max(S) == CHOOSE x \in S : \A y \in S : y <= x

\* str.rfind(c) + 1, 0 when absent
LastIndex(s, c) == Max({0} \cup {i \in 1..Len(s) : s[i] = c})

\* os.path.splitext(p)[0]
SplitextRoot(p) ==
    LET sep == LastIndex(p, "/")
        dot == LastIndex(p, ".")
    IN  IF dot > sep /\ \E k \in (sep + 1)..(dot - 1) : p[k] # "."
        THEN SubSeq(p, 1, dot - 1)
        ELSE p

IsCsv(filename) == EndsWith(Lower(filename), <<".", "c", "s", "v">>)

IsExcel(filename) ==
    \/ EndsWith(Lower(filename), <<".", "x", "l", "s">>)
    \/ EndsWith(Lower(filename), <<".", "x", "l", "s", "x">>)

\* file names a client may send; <<>> is the missing file name
Filenames ==
    { <<>>,
      <<"1", ".", "c", "s", "v">>,
      <<"A", ".", "C", "S", "V">>,
      <<"b", ".", "x", "l", "s", "x">>,
      <<"b", ".", "X", "L", "S">>,
      <<"a", ".", "t", "x", "t">>,
      <<"a", "/", "b", ".", "c", "s", "v">> }

\* sheet names of a workbook; the first two sanitize to the same identifier
SheetNames == { <<"S", " ", "1">>, <<"s", "_", "1">>, <<"1">> }

\* what pd.read_excel(sheet_name=None) can return: an ordered mapping from
\* distinct sheet names to DataFrames; the DataFrame of sheet k is called k
Workbooks ==
    { w \in UNION {[1..n -> SheetNames] : n \in 1..MaxSheets} :
        \A i, j \in 1..Len(w) : i # j => w[i] # w[j] }

EmptyStore == [n \in {} |-> None]

\* the store of a database file, the empty store when the file is absent
StoreAt(dbs, p) == IF p \in DOMAIN dbs THEN dbs[p] ELSE EmptyStore

\* df.to_sql(name, con=engine, index=False, if_exists="replace")
to_sql_append(store, name, df) ==
    [n \in DOMAIN store \cup {name} |->
        IF n = name
        THEN (IF n \in DOMAIN store THEN store[n] ELSE <<>>) \o <<df>>
        ELSE store[n]]
to_sql(store, name, df) ==
    [n \in DOMAIN store \cup {name} |-> IF n = name THEN <<df>> ELSE store[n]]

PutFile(dir, p, content) ==
    [q \in DOMAIN dir \cup {p} |-> IF q = p THEN content ELSE dir[q]]

\* os.remove(p)
RemoveFile(dir, p) == [q \in DOMAIN dir \ {p} |-> dir[q]]

-----------------------------------------------------------------------------
(* POST /upload: upload_file *)

UploadIdle ==
    [pc |-> "idle", filename |-> <<>>, session_id |-> NoId, xls |-> <<>>,
     tables |-> <<>>, exc |-> None, status |-> 0]

\* session ids already handed out by uuid4()
IssuedIds == {up[u].session_id : u \in Uploads} \ {NoId}

\* uuid4().hex: a value no earlier call returned
uuid4 == SessionIds \ IssuedIds

SavedPathOf(u) == saved_path(up[u].session_id, up[u].filename)
DbPathOf(u) == db_path(up[u].session_id)

\* lines 118-126: the request arrives; a missing file name is refused,
\* otherwise the session id and the paths are derived
UploadStart(u) ==
    /\ up[u].pc = "idle"
    /\ \E filename \in Filenames :
          IF filename = <<>>
          THEN up' = [up EXCEPT ![u].pc = "done", ![u].status = 400]
          ELSE \E sid \in uuid4 :
                  up' = [up EXCEPT ![u].pc = "save",
                                   ![u].filename = filename,
                                   ![u].session_id = sid]
    /\ UNCHANGED <<uploads, databases, ask, agent_calls, raw, clean, again>>

\* lines 129-131: write the raw copy; open() raises, outside the try, when
\* the file name names a directory that does not exist
SaveRaw(u) ==
    /\ up[u].pc = "save"
    /\ IF \E i \in 1..Len(up[u].filename) : up[u].filename[i] = "/"
       THEN /\ up' = [up EXCEPT ![u].pc = "done", ![u].status = 500]
            /\ UNCHANGED uploads
       ELSE /\ uploads' = PutFile(uploads, SavedPathOf(u), <<"contents", u>>)
            /\ up' = [up EXCEPT ![u].pc = "dispatch"]
    /\ UNCHANGED <<databases, ask, agent_calls, raw, clean, again>>

\* lines 136-138: the .csv branch reads the raw copy back
ReadCsv(u) ==
    /\ up[u].pc = "dispatch"
    /\ IsCsv(up[u].filename)
    /\ \/ /\ SavedPathOf(u) \in DOMAIN uploads
          /\ up' = [up EXCEPT ![u].pc = "csv_write"]
       \/ up' = [up EXCEPT ![u].pc = "except", ![u].exc = "ParserError"]
    /\ UNCHANGED <<uploads, databases, ask, agent_calls, raw, clean, again>>

\* the outcomes of a failed df.to_sql: the store file was never opened, or
\* it was opened (and so exists) and the statement was rolled back
ToSqlFails(u) ==
    /\ up' = [up EXCEPT ![u].pc = "except", ![u].exc = "OperationalError"]
    /\ \/ UNCHANGED databases
       \/ databases' = PutFile(databases, DbPathOf(u),
                               StoreAt(databases, DbPathOf(u)))

\* lines 139-142: the single relation of a CSV file, named after the stem
WriteCsv(u) ==
    /\ up[u].pc = "csv_write"
    /\ \/ LET table_name == _safe_table_name(SplitextRoot(up[u].filename))
          IN  /\ databases' = PutFile(databases, DbPathOf(u),
                      to_sql(StoreAt(databases, DbPathOf(u)), table_name, 1))
              /\ up' = [up EXCEPT ![u].pc = "return",
                                  ![u].tables = <<table_name>>]
       \/ ToSqlFails(u)
    /\ UNCHANGED <<uploads, ask, agent_calls, raw, clean, again>>

\* lines 144-147: the .xls/.xlsx branch reads every sheet of the raw copy
ReadExcel(u) ==
    /\ up[u].pc = "dispatch"
    /\ ~IsCsv(up[u].filename)
    /\ IsExcel(up[u].filename)
    /\ \/ /\ SavedPathOf(u) \in DOMAIN uploads
          /\ \E w \in Workbooks :
                up' = [up EXCEPT ![u].pc = "sheets", ![u].xls = w]
       \/ up' = [up EXCEPT ![u].pc = "except", ![u].exc = "ValueError"]
    /\ UNCHANGED <<uploads, databases, ask, agent_calls, raw, clean, again>>

\* lines 148-151: one iteration of the loop over xls.items()
WriteSheet(u) ==
    /\ up[u].pc = "sheets"
    /\ Len(up[u].tables) < Len(up[u].xls)
    /\ \/ LET k == Len(up[u].tables) + 1
              tn == _safe_table_name(up[u].xls[k])
          IN  /\ databases' = PutFile(databases, DbPathOf(u),
                      to_sql(StoreAt(databases, DbPathOf(u)), tn, k))
              /\ up' = [up EXCEPT ![u].tables = Append(@, tn)]
       \/ ToSqlFails(u)
    /\ UNCHANGED <<uploads, ask, agent_calls, raw, clean, again>>

\* line 148: xls.items() is exhausted
SheetsDone(u) ==
    /\ up[u].pc = "sheets"
    /\ Len(up[u].tables) = Len(up[u].xls)
    /\ up' = [up EXCEPT ![u].pc = "return"]
    /\ UNCHANGED <<uploads, databases, ask, agent_calls, raw, clean, again>>

\* lines 153-154: any other extension raises HTTPException(400) inside the try
Unsupported(u) ==
    /\ up[u].pc = "dispatch"
    /\ ~IsCsv(up[u].filename)
    /\ ~IsExcel(up[u].filename)
    /\ up' = [up EXCEPT ![u].pc = "except", ![u].exc = "HTTPException400"]
    /\ UNCHANGED <<uploads, databases, ask, agent_calls, raw, clean, again>>

\* lines 156-159: `except Exception` catches whatever the try raised
\* (HTTPException is an Exception) and removes the raw copy
CleanupRaw(dir, p) == IF p \in DOMAIN dir THEN RemoveFile(dir, p) ELSE dir

ExceptRemoveRaw(u) ==
    /\ up[u].pc = "except"
    /\ uploads' = CleanupRaw(uploads, SavedPathOf(u))
    /\ up' = [up EXCEPT ![u].pc = "except_db"]
    /\ UNCHANGED <<databases, ask, agent_calls, raw, clean, again>>

\* lines 160-161
CleanupDb_skip(dir, p) == dir
CleanupDb(dir, p) == IF p \in DOMAIN dir THEN RemoveFile(dir, p) ELSE dir

\* line 164: the handler re-raises, always with status 500
ExceptStatus(exc) == 500

\* lines 160-164: remove the store file and fail the request
ExceptRemoveDb(u) ==
    /\ up[u].pc = "except_db"
    /\ databases' = CleanupDb(databases, DbPathOf(u))
    /\ up' = [up EXCEPT ![u].pc = "done", ![u].status = ExceptStatus(up[u].exc)]
    /\ UNCHANGED <<uploads, ask, agent_calls, raw, clean, again>>

\* line 166
UploadReturn(u) ==
    /\ up[u].pc = "return"
    /\ up' = [up EXCEPT ![u].pc = "done", ![u].status = 200]
    /\ UNCHANGED <<uploads, databases, ask, agent_calls, raw, clean, again>>

UploadStep(u) ==
    \/ UploadStart(u)
    \/ SaveRaw(u)
    \/ ReadCsv(u)
    \/ WriteCsv(u)
    \/ ReadExcel(u)
    \/ WriteSheet(u)
    \/ SheetsDone(u)
    \/ Unsupported(u)
    \/ ExceptRemoveRaw(u)
    \/ ExceptRemoveDb(u)
    \/ UploadReturn(u)

-----------------------------------------------------------------------------
(* Python values met by the result normalisation of ask_question *)

PyNone == [t |-> "NoneType"]
PyInt(n) == [t |-> "int", v |-> n]
PyStr(chars) == [t |-> "str", v |-> chars]
PyTuple(items) == [t |-> "tuple", v |-> items]
PyList(items) == [t |-> "list", v |-> items]
PyDict(keys, vals) == [t |-> "dict", k |-> keys, v |-> vals]   \* insertion order

\* the text of a tool output that cannot be parsed as a literal
SyntaxError == [t |-> "SyntaxError"]

\* tool outputs: what the query tool can print for a statement
OutError == <<"E", "r", "r", "o", "r">>
OutTruncated == <<"[", "(", "1", ",">>
OutRows == <<"[", "(", "1", ",", "2", ")", ",", "(", "3", ",", "4", ")", "]">>
OutRowsIndented == <<"\n", "[", "(", "1", ",", ")", "]">>
OutScalars == <<"[", "1", ",", "2", "]">>
OutUnequal == <<"[", "(", "1", ",", "2", ")", ",", "(", "3", ",", ")", "]">>
OutNonIterable == <<"[", "(", "1", ",", ")", ",", "2", "]">>
OutMappings == <<"[", "{", "'", "a", "'", ":", "1", "}", "]">>
OutEmpty == <<"[", "]">>

QueryOutputs ==
    { OutError, OutTruncated, OutRows, OutRowsIndented, OutScalars,
      OutUnequal, OutNonIterable, OutMappings, OutEmpty }

\* ast.literal_eval(output) on the outputs above
literal_eval(output) ==
    CASE output = OutRows ->
            PyList(<<PyTuple(<<PyInt(1), PyInt(2)>>),
                     PyTuple(<<PyInt(3), PyInt(4)>>)>>)
      [] output = OutRowsIndented -> PyList(<<PyTuple(<<PyInt(1)>>)>>)
      [] output = OutScalars -> PyList(<<PyInt(1), PyInt(2)>>)
      [] output = OutUnequal ->
            PyList(<<PyTuple(<<PyInt(1), PyInt(2)>>), PyTuple(<<PyInt(3)>>)>>)
      [] output = OutNonIterable ->
            PyList(<<PyTuple(<<PyInt(1)>>), PyInt(2)>>)
      [] output = OutMappings -> PyList(<<PyDict(<<"a">>, <<PyInt(1)>>)>>)
      [] output = OutEmpty -> PyList(<<>>)
      [] OTHER -> SyntaxError

\* output.strip() with the whitespace a tool output can carry
RECURSIVE StripOutput(_)
StripOutput(s) ==
    IF s # <<>> /\ Head(s) \in {" ", "\n"} THEN StripOutput(Tail(s))
    ELSE IF s # <<>> /\ s[Len(s)] \in {" ", "\n"}
         THEN StripOutput(SubSeq(s, 1, Len(s) - 1))
         ELSE s

\* f"col_{i+1}"
ColumnName(i) ==
    CASE i = 1 -> "col_1"
      [] i = 2 -> "col_2"
      [] i = 3 -> "col_3"
      [] OTHER -> "col_n"

Min(a, b) == IF a < b THEN a ELSE b

\* iter(r): the items a Python value yields, or TypeError
TypeError == [t |-> "TypeError"]
IsIterable(r) == r.t \in {"tuple", "list", "dict", "str"}
Items(r) == IF r.t = "dict" THEN [i \in 1..Len(r.k) |-> PyStr(r.k[i])] ELSE r.v

\* dict(zip(column_names, r)), column_names being col_1..col_n
DictZip(n, r) ==
    LET m == Min(n, Len(Items(r)))
    IN  PyDict([i \in 1..m |-> ColumnName(i)], [i \in 1..m |-> Items(r)[i]])

\* lines 243-246: positional rows become records; raises TypeError when a
\* row is not iterable
ConvertRows(rows) ==
    IF rows.t = "list" /\ Len(rows.v) > 0 /\ rows.v[1].t \in {"list", "tuple"}
    THEN IF \A i \in 1..Len(rows.v) : IsIterable(rows.v[i])
         THEN PyList([i \in 1..Len(rows.v) |->
                        DictZip(Len(rows.v[1].v), rows.v[i])])
         ELSE TypeError
    ELSE rows

QueryTool == "sql_db_query"
OtherTool == "sql_db_schema"

\* lines 215-223: the inputs of the query-tool steps, in trace order
RECURSIVE SqlQueries(_)
SqlQueries(steps) ==
    IF steps = <<>> THEN <<>>
    ELSE (IF Head(steps).tool = QueryTool THEN <<Head(steps).tool_input>>
          ELSE <<>>) \o SqlQueries(Tail(steps))

\* lines 234-240: the parse of one query-tool output; rows stays None when
\* the output does not look like a list or does not parse
ParseOutput(output) ==
    IF StartsWith(StripOutput(output), <<"[">>)
    THEN (IF literal_eval(output) = SyntaxError THEN PyNone
          ELSE literal_eval(output))
    ELSE PyNone

\* lines 226-250: rows comes from the first query-tool step of the trace,
\* whatever its output; an exception of the conversion leaves rows None
RECURSIVE ExtractRows(_)
ExtractRows(steps) ==
    IF steps = <<>> THEN PyNone
    ELSE IF Head(steps).tool = QueryTool
         THEN LET rows == ConvertRows(ParseOutput(Head(steps).output))
              IN  IF rows = TypeError THEN PyNone ELSE rows
         ELSE ExtractRows(Tail(steps))

\* QueryResponse.rows: Optional[List[Dict[str, Any]]]
ValidRows(rows) ==
    \/ rows.t = "NoneType"
    \/ /\ rows.t = "list"
       /\ \A i \in 1..Len(rows.v) : rows.v[i].t = "dict"

-----------------------------------------------------------------------------
(* POST /ask: ask_question *)

DefaultTopK == 5
TopKs == {DefaultTopK, 1}
Questions == {"how many rows", "drop it"}
Answers == {"there are 2"}

AskIdle ==
    [pc |-> "idle", session_id |-> NoId, question |-> "", top_k |-> DefaultTopK,
     mode |-> None, steps |-> <<>>, answer |-> "", status |-> 0,
     sql_queries |-> <<>>, rows |-> PyNone]

NoCall == [called |-> FALSE]

\* line 190: os.path.exists(db_path)
SessionExists_always(dbs, session_id) == TRUE
SessionExists(dbs, session_id) == db_path(session_id) \in DOMAIN dbs

\* line 195: the mode of f"sqlite:///file:{db_path}?mode=ro&uri=true"
OpenMode_rw == "rw"
OpenMode == "ro"

\* lines 198-209: what the agent is built and invoked with; top_k is not
\* among it
AgentInvocation(question, top_k) ==
    [called |-> TRUE,
     payload |-> [input |-> question],
     create_sql_agent |-> [verbose |-> TRUE, return_intermediate_steps |-> TRUE]]

\* the statements the agent may send through the query tool
Statements == {"SELECT", "DROP"}

\* what the engine prints for a SELECT over a store
Render(store) == IF DOMAIN store = {} THEN OutEmpty ELSE OutRows

\* the engine's execution of one statement over a connection of the given
\* mode: a write is refused on a read-only connection, and the query tool
\* reports every refusal as an "Error" text
Execute(mode, store, stmt) ==
    CASE stmt = "SELECT" -> [store |-> store, output |-> Render(store)]
      [] stmt = "DROP" /\ mode # "ro" ->
            [store |-> EmptyStore, output |-> <<>>]
      [] OTHER -> [store |-> store, output |-> OutError]

\* lines 189-191: a new request arrives in the slot (after the previous one
\* completed); an unknown session is refused
AskStart(a) ==
    /\ ask[a].pc \in {"idle", "done"}
    /\ \E session_id \in SessionIds, question \in Questions, top_k \in TopKs :
          LET req == [AskIdle EXCEPT !.session_id = session_id,
                                     !.question = question,
                                     !.top_k = top_k]
          IN  IF SessionExists(databases, session_id)
              THEN ask' = [ask EXCEPT ![a] = [req EXCEPT !.pc = "connect"]]
              ELSE ask' = [ask EXCEPT ![a] =
                              [req EXCEPT !.pc = "done", !.status = 404]]
    /\ agent_calls' = [agent_calls EXCEPT ![a] = NoCall]
    /\ UNCHANGED <<uploads, databases, up, raw, clean, again>>

\* line 195: SQLDatabase.from_uri opens the store; a store file removed
\* since the check makes it raise (a read-only open creates nothing)
Connect(a) ==
    /\ ask[a].pc = "connect"
    /\ IF SessionExists(databases, ask[a].session_id)
       THEN ask' = [ask EXCEPT ![a].pc = "invoke", ![a].mode = OpenMode]
       ELSE ask' = [ask EXCEPT ![a].pc = "done", ![a].status = 500]
    /\ UNCHANGED <<uploads, databases, up, agent_calls, raw, clean, again>>

\* lines 198-209: build the agent and call agent.invoke
Invoke(a) ==
    /\ ask[a].pc = "invoke"
    /\ agent_calls' = [agent_calls EXCEPT ![a] =
                          AgentInvocation(ask[a].question, ask[a].top_k)]
    /\ ask' = [ask EXCEPT ![a].pc = "running"]
    /\ UNCHANGED <<uploads, databases, up, raw, clean, again>>

\* inside agent.invoke: the agent runs one statement through the query tool
AgentQuery(a) ==
    /\ ask[a].pc = "running"
    /\ Len(ask[a].steps) < MaxTrace
    /\ \E stmt \in Statements :
          LET p == db_path(ask[a].session_id)
              r == Execute(ask[a].mode, StoreAt(databases, p), stmt)
          IN  /\ databases' = IF p \in DOMAIN databases
                              THEN [databases EXCEPT ![p] = r.store]
                              ELSE databases
              /\ ask' = [ask EXCEPT ![a].steps = Append(@,
                            [tool |-> QueryTool, tool_input |-> stmt,
                             output |-> r.output])]
    /\ UNCHANGED <<uploads, up, agent_calls, raw, clean, again>>

OutSchema == <<"C", "R", "E", "A", "T", "E">>

\* inside agent.invoke: the agent uses another tool of the toolkit
AgentOther(a) ==
    /\ ask[a].pc = "running"
    /\ Len(ask[a].steps) < MaxTrace
    /\ ask' = [ask EXCEPT ![a].steps = Append(@,
                  [tool |-> OtherTool, tool_input |-> "t",
                   output |-> OutSchema])]
    /\ UNCHANGED <<uploads, databases, up, agent_calls, raw, clean, again>>

\* line 209: agent.invoke returns its result
AgentFinish(a) ==
    /\ ask[a].pc = "running"
    /\ \E answer \in Answers :
          ask' = [ask EXCEPT ![a].pc = "normalize", ![a].answer = answer]
    /\ UNCHANGED <<uploads, databases, up, agent_calls, raw, clean, again>>

\* lines 210-211: agent.invoke raises
AgentRaise(a) ==
    /\ ask[a].pc = "running"
    /\ ask' = [ask EXCEPT ![a].pc = "done", ![a].status = 500]
    /\ UNCHANGED <<uploads, databases, up, agent_calls, raw, clean, again>>

\* lines 213-258: extract the statements and the rows and build the
\* QueryResponse, whose validation fails the request when rows is not a
\* list of mappings
Respond(a) ==
    /\ ask[a].pc = "normalize"
    /\ LET rows == ExtractRows(ask[a].steps)
       IN  ask' = [ask EXCEPT ![a].pc = "done",
                              ![a].sql_queries = SqlQueries(ask[a].steps),
                              ![a].rows = rows,
                              ![a].status = IF ValidRows(rows) THEN 200 ELSE 500]
    /\ UNCHANGED <<uploads, databases, up, agent_calls, raw, clean, again>>

AskStep(a) ==
    \/ AskStart(a)
    \/ Connect(a)
    \/ Invoke(a)
    \/ AgentQuery(a)
    \/ AgentOther(a)
    \/ AgentFinish(a)
    \/ AgentRaise(a)
    \/ Respond(a)

-----------------------------------------------------------------------------
(* The _safe_table_name study *)

Sanitize ==
    /\ clean = <<>>
    /\ clean' = <<_safe_table_name(raw)>>
    /\ UNCHANGED <<uploads, databases, up, ask, agent_calls, raw, again>>

Resanitize ==
    /\ clean # <<>>
    /\ again = <<>>
    /\ again' = <<_safe_table_name(clean[1])>>
    /\ UNCHANGED <<uploads, databases, up, ask, agent_calls, raw, clean>>

-----------------------------------------------------------------------------
(* The result-normalisation study: every trace up to MaxTrace steps *)

TraceSteps ==
    {[tool |-> QueryTool, tool_input |-> "SELECT", output |-> o] :
        o \in QueryOutputs}
    \cup {[tool |-> OtherTool, tool_input |-> "t", output |-> OutSchema]}

Traces == UNION {[1..n -> TraceSteps] : n \in 0..MaxTrace}

-----------------------------------------------------------------------------
(* Specifications *)

Init ==
    /\ uploads = <<>>
    /\ databases = <<>>
    /\ up = [u \in Uploads |-> UploadIdle]
    /\ ask = [a \in Asks |-> AskIdle]
    /\ agent_calls = [a \in Asks |-> NoCall]
    /\ raw = <<>>
    /\ clean = <<>>
    /\ again = <<>>

\* two concurrent uploads
NextUpload == \E u \in Uploads : UploadStep(u)
SpecUpload == Init /\ [][NextUpload]_vars

\* one upload and the /ask requests that follow one another
NextAsk ==
    \/ UploadStep(1)
    \/ \E a \in Asks : AskStep(a)
SpecAsk == Init /\ [][NextAsk]_vars

\* _safe_table_name applied once and twice to every input
InitSanitize ==
    /\ uploads = <<>>
    /\ databases = <<>>
    /\ up = [u \in Uploads |-> UploadIdle]
    /\ ask = [a \in Asks |-> AskIdle]
    /\ agent_calls = [a \in Asks |-> NoCall]
    /\ raw \in RawNames
    /\ clean = <<>>
    /\ again = <<>>
NextSanitize == Sanitize \/ Resanitize
SpecSanitize == InitSanitize /\ [][NextSanitize]_vars

\* the agent has returned a trace for a known session; the response is built
InitNormalize ==
    /\ uploads = <<>>
    /\ databases = <<>>
    /\ up = [u \in Uploads |-> UploadIdle]
    /\ \E steps \in Traces, answer \in Answers, top_k \in TopKs :
          /\ ask = [a \in Asks |->
                       [AskIdle EXCEPT !.pc = "normalize",
                                       !.session_id = CHOOSE s \in SessionIds : TRUE,
                                       !.question = "how many rows",
                                       !.top_k = top_k,
                                       !.mode = OpenMode,
                                       !.steps = steps,
                                       !.answer = answer]]
          /\ agent_calls =
                [a \in Asks |-> AgentInvocation("how many rows", top_k)]
    /\ raw = <<>>
    /\ clean = <<>>
    /\ again = <<>>
NextNormalize == \E a \in Asks : Respond(a)
SpecNormalize == InitNormalize /\ [][NextNormalize]_vars

-----------------------------------------------------------------------------
(* Properties of /upload *)

\* C1: an upload with a non-empty file name whose extension is none of
\* .csv, .xls, .xlsx completes with HTTP status 400.
C1_UnsupportedIs400 ==
    \A u \in Uploads :
        ( /\ up[u].pc = "done"
          /\ up[u].filename # <<>>
          /\ ~IsCsv(up[u].filename)
          /\ ~IsExcel(up[u].filename) )
        => up[u].status = 400

\* C2: once an upload that generated a session id has completed with a
\* failure, neither its raw copy nor its store file exists.
C2_FailedUploadLeavesNoFiles ==
    \A u \in Uploads :
        ( /\ up[u].pc = "done"
          /\ up[u].session_id # NoId
          /\ up[u].status # 200 )
        => /\ SavedPathOf(u) \notin DOMAIN uploads
           /\ DbPathOf(u) \notin DOMAIN databases

\* a workbook upload failed on a store write after a sheet had been written
C2_Witness ==
    \E u \in Uploads :
        /\ up[u].pc = "done"
        /\ up[u].status = 500
        /\ up[u].exc = "OperationalError"
        /\ Len(up[u].tables) >= 1
        /\ SavedPathOf(u) \notin DOMAIN uploads
        /\ DbPathOf(u) \notin DOMAIN databases

\* the files of request v are the same before and after the step
FilesKept(v) ==
    /\ (SavedPathOf(v) \in DOMAIN uploads) = (SavedPathOf(v) \in DOMAIN uploads')
    /\ SavedPathOf(v) \in DOMAIN uploads =>
          uploads'[SavedPathOf(v)] = uploads[SavedPathOf(v)]
    /\ (DbPathOf(v) \in DOMAIN databases) = (DbPathOf(v) \in DOMAIN databases')
    /\ DbPathOf(v) \in DOMAIN databases =>
          databases'[DbPathOf(v)] = databases[DbPathOf(v)]

\* C9: no step of one upload, its writes and its failure cleanup included,
\* creates, overwrites or removes the raw copy or the store file of the
\* other upload's session.
C9_UploadsTouchOwnFilesOnly ==
    [][\A u, v \in Uploads :
          (u # v /\ up'[u] # up[u] /\ up[v].session_id # NoId) => FilesKept(v)]_vars

\* both uploads carried the same file name; one failed and was cleaned up,
\* the other succeeded and its two files are in place
C9_Witness ==
    \E u, v \in Uploads :
        /\ u # v
        /\ up[u].filename = up[v].filename
        /\ up[u].pc = "done" /\ up[u].status = 500
        /\ up[u].exc = "OperationalError"
        /\ up[v].pc = "done" /\ up[v].status = 200
        /\ SavedPathOf(v) \in DOMAIN uploads
        /\ DbPathOf(v) \in DOMAIN databases

\* the last sheet of the workbook whose sanitized name is n
LastSheetNamed(xls, n) ==
    Max({k \in 1..Len(xls) : _safe_table_name(xls[k]) = n})

\* C10: after a successful workbook upload, tables has one entry per sheet
\* in sheet order, and the session's store holds one relation per distinct
\* sanitized name whose content is that of the last sheet with that name;
\* this holds of each session whatever the other upload does.
C10_WorkbookTablesAndStore ==
    \A u \in Uploads :
        ( /\ up[u].pc = "done"
          /\ up[u].status = 200
          /\ IsExcel(up[u].filename) )
        => /\ Len(up[u].tables) = Len(up[u].xls)
           /\ \A k \in 1..Len(up[u].xls) :
                 up[u].tables[k] = _safe_table_name(up[u].xls[k])
           /\ DbPathOf(u) \in DOMAIN databases
           /\ DOMAIN databases[DbPathOf(u)] =
                 {up[u].tables[k] : k \in 1..Len(up[u].tables)}
           /\ \A n \in DOMAIN databases[DbPathOf(u)] :
                 databases[DbPathOf(u)][n] = <<LastSheetNamed(up[u].xls, n)>>

\* a workbook whose two sheets sanitize to the same name was ingested
C10_Witness ==
    \E u \in Uploads :
        /\ up[u].pc = "done"
        /\ up[u].status = 200
        /\ Len(up[u].tables) = 2
        /\ up[u].xls[1] # up[u].xls[2]
        /\ up[u].tables[1] = up[u].tables[2]
        /\ databases[DbPathOf(u)][up[u].tables[1]] = <<2>>

-----------------------------------------------------------------------------
(* Properties of /ask *)

\* a new /ask request arrives in slot a with this step
Arrives(a) == ask[a].pc \in {"idle", "done"} /\ ask'[a] # ask[a]

\* C3: a request whose session has no store file completes at once with
\* status 404, without a call of the agent and without a change of the
\* databases directory.
C3_UnknownSessionIs404 ==
    [][\A a \in Asks :
          (Arrives(a) /\ db_path(ask'[a].session_id) \notin DOMAIN databases)
          => /\ ask'[a].pc = "done"
             /\ ask'[a].status = 404
             /\ agent_calls'[a] = NoCall
             /\ databases' = databases]_vars

\* the session asked about was removed by its failed ingestion
C3_Witness ==
    \E a \in Asks :
        /\ ask[a].pc = "done"
        /\ ask[a].status = 404
        /\ up[1].pc = "done"
        /\ up[1].status = 500
        /\ up[1].session_id = ask[a].session_id
        /\ agent_calls[a] = NoCall

\* C4: whenever the agent has returned, the request completes with
\* status 200, whatever the shape of the tool outputs.
C4_NormalizationNeverFails ==
    \A a \in Asks :
        (ask[a].pc = "done" /\ ask[a].answer \in Answers)
        => /\ ask[a].status = 200
           /\ ask[a].sql_queries = SqlQueries(ask[a].steps)

LooksLikeList(step) ==
    step.tool = QueryTool /\ StartsWith(StripOutput(step.output), <<"[">>)

\* the rows of the first query-tool step whose output looks like a list
RowsOfFirstList(steps) ==
    IF \E i \in 1..Len(steps) : LooksLikeList(steps[i])
    THEN LET i == CHOOSE i \in 1..Len(steps) :
                    /\ LooksLikeList(steps[i])
                    /\ \A j \in 1..(i - 1) : ~LooksLikeList(steps[j])
             rows == ConvertRows(ParseOutput(steps[i].output))
         IN  IF rows = TypeError THEN PyNone ELSE rows
    ELSE PyNone

\* C5: rows is derived from the first query-tool step whose output begins
\* with "[", also when query-tool steps with another output precede it.
C5_RowsFromFirstListOutput ==
    \A a \in Asks :
        (ask[a].pc = "done" /\ ask[a].answer \in Answers)
        => ask[a].rows = RowsOfFirstList(ask[a].steps)

\* C6: the call made to the agent carries the question and the request's
\* top_k: a request differing only in top_k would make a different call.
C6_AgentCallCarriesTopK ==
    \A a \in Asks :
        agent_calls[a].called
        => /\ agent_calls[a].payload.input = ask[a].question
           /\ \A k \in TopKs \ {ask[a].top_k} :
                 agent_calls[a] # AgentInvocation(ask[a].question, k)

\* C8: no step of an /ask request changes the uploads or the databases
\* directory or the content of a store, and every write statement sent
\* through the query connection is answered with an error.
C8_AskNeverMutates ==
    [][\A a \in Asks :
          ask'[a] # ask[a]
          => /\ databases' = databases
             /\ uploads' = uploads
             /\ \A i \in 1..Len(ask'[a].steps) :
                   ask'[a].steps[i].tool_input = "DROP"
                   => ask'[a].steps[i].output = OutError]_vars

\* the agent attempted a write on an ingested session and the request
\* completed; the store still holds its relation
C8_Witness ==
    \E a \in Asks :
        /\ ask[a].pc = "done"
        /\ ask[a].status = 200
        /\ \E i \in 1..Len(ask[a].steps) : ask[a].steps[i].tool_input = "DROP"
        /\ db_path(ask[a].session_id) \in DOMAIN databases
        /\ DOMAIN databases[db_path(ask[a].session_id)] # {}

-----------------------------------------------------------------------------
(* Properties of _safe_table_name *)

\* C7: _safe_table_name(s) is non-empty, matches ^[a-z_][a-z0-9_]*$, and
\* applying _safe_table_name to it again returns it unchanged.
C7_SafeNameValidAndIdempotent ==
    /\ clean # <<>> => (clean[1] # <<>> /\ MatchesIdentifier(clean[1]))
    /\ again # <<>> => again[1] = clean[1]

\* a digit-leading input with a character outside [0-9a-z_] went through
\* both applications
C7_Witness ==
    /\ again # <<>>
    /\ raw # <<>>
    /\ raw[1] \in Digits
    /\ \E i \in 1..Len(raw) : raw[i] \notin SafeChars
    /\ StartsWith(clean[1], <<"t", "_">>)

====
